---- MODULE Spec2Model ----
(***************************************************************************)
(* Model of the typed IR of desmoclient (src/src/compile/ir.rs): the value *)
(* types, the position-keyed identifiers, the operation set with its type  *)
(* inference, and the instruction sequence (a BTreeMap<Id, IROp>) with its *)
(* builder operations.                                                     *)
(*                                                                         *)
(* A position is a u32.  It is written here as two 16-bit limbs <<hi, lo>> *)
(* (value hi * 65536 + lo), so that the full 32-bit range and the          *)
(* wrap-around of idx + 1 are represented exactly.                         *)
(***************************************************************************)
EXTENDS Integers, Sequences, FiniteSets, TLC

VARIABLES backing, last, placements, panicked

vars == <<backing, last, placements, panicked>>

(***************************************************************************)
(* Bounds of the exploration.                                              *)
(***************************************************************************)
MaxPlaced == 4        \* placements made during one behaviour
MaxBlock == 2         \* longest slice handed to place_block
MaxNear == 2          \* SpecFull starts at most this far from a full u32 range
MaxTypedPlaced == 1   \* placements of the held operation in SpecTypes

(***************************************************************************)
(* IRType                                                                  *)
(***************************************************************************)
IRType == {"Number", "Vec2", "Vec3", "Never", "Bool",
           "NumberList", "Vec2List", "Vec3List"}

CoordinateAccess == {"DotAccessX", "DotAccessY", "DotAccessZ"}

(***************************************************************************)
(* u32 positions as two 16-bit limbs                                       *)
(***************************************************************************)
LimbMod == 65536

U32(n) == <<n \div LimbMod, n % LimbMod>>

U32Zero == <<0, 0>>

U32Max == <<LimbMod - 1, LimbMod - 1>>

\* u32::cmp
U32Cmp(x, y) ==
    IF x[1] < y[1] THEN "Less"
    ELSE IF x[1] > y[1] THEN "Greater"
    ELSE IF x[2] < y[2] THEN "Less"
    ELSE IF x[2] > y[2] THEN "Greater"
    ELSE "Equal"

\* x + 1 modulo 2^32
U32WrappingSucc(x) ==
    IF x[2] + 1 < LimbMod THEN <<x[1], x[2] + 1>>
    ELSE <<(x[1] + 1) % LimbMod, 0>>

(***************************************************************************)
(* Id, BroadcastArg                                                        *)
(***************************************************************************)
IdNew(idx, t) == [idx |-> idx, t |-> t]

WithIdx(id, idx) == [idx |-> idx, t |-> id.t]

\* impl Ord for Id: a variant that also compares the type tag
IdCmpWithTag(a, b) ==
    IF U32Cmp(a.idx, b.idx) # "Equal" THEN U32Cmp(a.idx, b.idx)
    ELSE IF a.t = b.t THEN "Equal"
    ELSE IF a.t = "Number" THEN "Less" ELSE "Greater"

\* impl Ord for Id / impl PartialOrd for Id
IdCmp(a, b) == U32Cmp(a.idx, b.idx)

\* impl PartialEq for Id
IdEq(a, b) == a.idx = b.idx

BroadcastArgNew(t, id) == [t |-> t, id |-> id]

(***************************************************************************)
(* IROp.  Every operation is a record of the same shape:                   *)
(*   kind  the variant, ids its Id operands in declaration order,          *)
(*   sym   its operator / axis tag, lit its literal,                       *)
(*   bargs its BroadcastArg operand (a sequence of length 0 or 1).         *)
(***************************************************************************)
MkOp(kind, ids, sym, lit, bargs) ==
    [kind |-> kind, ids |-> ids, sym |-> sym, lit |-> lit, bargs |-> bargs]

OpBinary(a, b, o) == MkOp("Binary", <<a, b>>, o, 0, <<>>)
OpUnary(a, o) == MkOp("Unary", <<a>>, o, 0, <<>>)
OpConst(c) == MkOp("Const", <<>>, "", c, <<>>)
OpIConst(c) == MkOp("IConst", <<>>, "", c, <<>>)
OpLoadArg(a) == MkOp("LoadArg", <<a>>, "", 0, <<>>)
OpCoordinateOf(p, axis) == MkOp("CoordinateOf", <<p>>, axis, 0, <<>>)
OpVec2(a, b) == MkOp("Vec2", <<a, b>>, "", 0, <<>>)
OpVec3(a, b, c) == MkOp("Vec3", <<a, b, c>>, "", 0, <<>>)
OpNumberList(len) == MkOp("NumberList", <<len>>, "", 0, <<>>)
OpVec2List(len) == MkOp("Vec2List", <<len>>, "", 0, <<>>)
OpVec3List(len) == MkOp("Vec3List", <<len>>, "", 0, <<>>)
OpListLength(a) == MkOp("ListLength", <<a>>, "", 0, <<>>)
OpBeginBroadcast(end_index, write_to) ==
    MkOp("BeginBroadcast", <<end_index, write_to>>, "", 0, <<>>)
OpSetBroadcastArg(a, slot) == MkOp("SetBroadcastArg", <<a>>, "", 0, <<slot>>)
OpLoadBroadcastArg(slot) == MkOp("LoadBroadcastArg", <<>>, "", 0, <<slot>>)
OpEndBroadcast(begin, ret) == MkOp("EndBroadcast", <<begin, ret>>, "", 0, <<>>)
OpComparison(lhs, comp, rhs) == MkOp("Comparison", <<lhs, rhs>>, comp, 0, <<>>)
OpBeginPiecewise(comp, res) == MkOp("BeginPiecewise", <<comp, res>>, "", 0, <<>>)
OpInnerPiecewise(comp, res) == MkOp("InnerPiecewise", <<comp, res>>, "", 0, <<>>)
OpEndPiecewise(default) == MkOp("EndPiecewise", <<default>>, "", 0, <<>>)
OpRet(a) == MkOp("Ret", <<a>>, "", 0, <<>>)

\* IROp::type_of with the arm for BeginBroadcast at line 188 taking effect
TypeOfBroadcastNever(op) ==
    IF op.kind \in {"Binary", "Unary", "Const", "IConst", "CoordinateOf", "ListLength"}
        THEN "Number"
    ELSE IF op.kind = "LoadArg" THEN op.ids[1].t
    ELSE IF op.kind = "LoadBroadcastArg" THEN op.bargs[1].t
    ELSE IF op.kind = "BeginPiecewise" THEN op.ids[2].t
    ELSE IF op.kind = "Vec2" THEN "Vec2"
    ELSE IF op.kind = "Vec3" THEN "Vec3"
    ELSE IF op.kind = "NumberList" THEN "NumberList"
    ELSE IF op.kind = "Vec2List" THEN "Vec2List"
    ELSE IF op.kind = "Vec3List" THEN "Vec3List"
    ELSE IF op.kind = "Comparison" THEN "Bool"
    ELSE IF op.kind = "Ret" THEN op.ids[1].t
    ELSE "Never"

\* IROp::type_of: the arms of the match in source order, first match wins
TypeOf(op) ==
    IF op.kind \in {"Binary", "Unary", "Const", "IConst", "CoordinateOf", "ListLength"}
        THEN "Number"
    ELSE IF op.kind = "LoadArg" THEN op.ids[1].t
    ELSE IF op.kind = "LoadBroadcastArg" THEN op.bargs[1].t
    ELSE IF op.kind = "BeginPiecewise" THEN op.ids[2].t
    ELSE IF op.kind = "BeginBroadcast" THEN op.ids[2].t
    ELSE IF op.kind = "Vec2" THEN "Vec2"
    ELSE IF op.kind = "Vec3" THEN "Vec3"
    ELSE IF op.kind = "NumberList" THEN "NumberList"
    ELSE IF op.kind = "Vec2List" THEN "Vec2List"
    ELSE IF op.kind = "Vec3List" THEN "Vec3List"
    ELSE IF op.kind = "BeginBroadcast" THEN "Never"
    ELSE IF op.kind = "SetBroadcastArg" THEN "Never"
    ELSE IF op.kind = "EndBroadcast" THEN "Never"
    ELSE IF op.kind = "Comparison" THEN "Bool"
    ELSE IF op.kind \in {"InnerPiecewise", "EndPiecewise"} THEN "Never"
    ELSE op.ids[1].t

(***************************************************************************)
(* Results of calls: tag is "Ok", "Some", "None", "Unit", "Panic" or an    *)
(* error message; ids / ops / ty carry the returned values.                *)
(***************************************************************************)
MkRet(tag, ids, ops, ty) == [tag |-> tag, ids |-> ids, ops |-> ops, ty |-> ty]

ErrCannotCreateList == "cannot create a list of"
ErrCouldNotGet == "Could not get IR opcode"
ErrLatestEmpty == "called latest on empty InstructionSeq"

\* IRType::downcast_list, with the list types of vectors mapped as well
DowncastListAllLists(t) ==
    IF t = "NumberList" THEN MkRet("Some", <<>>, <<>>, <<"Number">>)
    ELSE IF t = "Vec2" THEN MkRet("Some", <<>>, <<>>, <<"Vec2">>)
    ELSE IF t = "Vec3" THEN MkRet("Some", <<>>, <<>>, <<"Vec3">>)
    ELSE IF t = "Vec2List" THEN MkRet("Some", <<>>, <<>>, <<"Vec2">>)
    ELSE IF t = "Vec3List" THEN MkRet("Some", <<>>, <<>>, <<"Vec3">>)
    ELSE MkRet("None", <<>>, <<>>, <<>>)

\* IRType::downcast_list
DowncastList(t) ==
    IF t = "NumberList" THEN MkRet("Some", <<>>, <<>>, <<"Number">>)
    ELSE IF t = "Vec2" THEN MkRet("Some", <<>>, <<>>, <<"Vec2">>)
    ELSE IF t = "Vec3" THEN MkRet("Some", <<>>, <<>>, <<"Vec3">>)
    ELSE MkRet("None", <<>>, <<>>, <<>>)

\* IRType::list_of accepting Bool as an element type
ListOfAcceptsBool(t, len) ==
    IF t = "Number" THEN MkRet("Ok", <<>>, <<OpNumberList(len)>>, <<>>)
    ELSE IF t = "Vec2" THEN MkRet("Ok", <<>>, <<OpVec2List(len)>>, <<>>)
    ELSE IF t = "Vec3" THEN MkRet("Ok", <<>>, <<OpVec3List(len)>>, <<>>)
    ELSE IF t = "Bool" THEN MkRet("Ok", <<>>, <<OpNumberList(len)>>, <<>>)
    ELSE MkRet(ErrCannotCreateList, <<>>, <<>>, <<t>>)

\* IRType::list_of
ListOf(t, len) ==
    IF t = "Number" THEN MkRet("Ok", <<>>, <<OpNumberList(len)>>, <<>>)
    ELSE IF t = "Vec2" THEN MkRet("Ok", <<>>, <<OpVec2List(len)>>, <<>>)
    ELSE IF t = "Vec3" THEN MkRet("Ok", <<>>, <<OpVec3List(len)>>, <<>>)
    ELSE MkRet(ErrCannotCreateList, <<>>, <<>>, <<t>>)

\* IRType::is_value_type
IsValueType(t) ==
    t \in {"Number", "Vec2", "Vec3", "NumberList", "Vec2List", "Vec3List"}

(***************************************************************************)
(* The BTreeMap<Id, IROp> behind IRInstructionSeq.                         *)
(*                                                                         *)
(* backing.ents is the sequence of entries [key, op] in key order.         *)
(* backing.bulk is empty, or holds one position b: then every position     *)
(* 0..b that has no entry in ents is an entry (BulkKey, BulkOp) as well.   *)
(* This is how a sequence made of some 2^32 placements of the same         *)
(* constant is written down; the map it denotes is an ordinary map.        *)
(***************************************************************************)
BulkOp == OpConst(0)

BulkKey(idx) == IdNew(idx, TypeOf(BulkOp))

EmptyBacking == [bulk |-> <<>>, ents |-> <<>>]

\* the indexes of the entries whose key compares Equal to id
EntAt(b, id) == {i \in 1..Len(b.ents) : IdCmp(b.ents[i].key, id) = "Equal"}

\* id is the key of a bulk entry
InBulk(b, id) ==
    /\ b.bulk # <<>>
    /\ U32Cmp(id.idx, b.bulk[1]) # "Greater"
    /\ EntAt(b, id) = {}
    /\ IdCmp(BulkKey(id.idx), id) = "Equal"

\* BTreeMap::get: <<op>> when the key is present, <<>> otherwise
MapGet(b, id) ==
    IF EntAt(b, id) # {} THEN <<b.ents[CHOOSE i \in EntAt(b, id) : TRUE].op>>
    ELSE IF InBulk(b, id) THEN <<BulkOp>>
    ELSE <<>>

\* BTreeMap::insert: an equal key keeps the stored key and replaces the
\* value; a new key goes to its place in key order
MapInsert(b, id, op) ==
    IF EntAt(b, id) # {}
    THEN LET i == CHOOSE j \in EntAt(b, id) : TRUE
         IN [b EXCEPT !.ents[i].op = op]
    ELSE LET key == IF InBulk(b, id) THEN BulkKey(id.idx) ELSE id
             pos == Cardinality({i \in 1..Len(b.ents) :
                                    IdCmp(b.ents[i].key, id) = "Less"})
         IN [b EXCEPT !.ents = SubSeq(b.ents, 1, pos)
                               \o <<[key |-> key, op |-> op]>>
                               \o SubSeq(b.ents, pos + 1, Len(b.ents))]

\* BTreeMap::last_key_value: <<[key, op]>> of the greatest key, <<>> when empty
MapLast(b) ==
    LET n == Len(b.ents)
    IN IF n > 0 /\ (b.bulk = <<>>
                    \/ IdCmp(b.ents[n].key, BulkKey(b.bulk[1])) # "Less")
       THEN <<b.ents[n]>>
       ELSE IF b.bulk # <<>>
       THEN <<[key |-> BulkKey(b.bulk[1]), op |-> BulkOp]>>
       ELSE <<>>

\* BTreeMap::first_key_value
MapFirst(b) ==
    IF b.bulk # <<>>
    THEN <<[key |-> BulkKey(U32Zero), op |-> MapGet(b, BulkKey(U32Zero))[1]]>>
    ELSE IF Len(b.ents) > 0 THEN <<b.ents[1]>>
    ELSE <<>>

(***************************************************************************)
(* IRInstructionSeq                                                        *)
(***************************************************************************)
\* place, lines 208-211, stepping by two
NextIdxSkipping(b) ==
    IF MapLast(b) = <<>> THEN [idx |-> U32Zero, overflow |-> FALSE]
    ELSE LET v == MapLast(b)[1].key.idx
         IN [idx |-> U32WrappingSucc(U32WrappingSucc(v)),
             overflow |-> v = U32Max]

\* place, lines 208-211: nid = 0, or the last key's idx + 1; the addition
\* overflows a u32 when that idx is u32::MAX
NextIdx(b) ==
    IF MapLast(b) = <<>> THEN [idx |-> U32Zero, overflow |-> FALSE]
    ELSE LET v == MapLast(b)[1].key.idx
         IN [idx |-> U32WrappingSucc(v), overflow |-> v = U32Max]

\* IRInstructionSeq::place.  checks is the build's overflow-checks setting:
\* idx + 1 past u32::MAX panics when it is on and wraps to 0 when it is off.
Place(b, op, checks) ==
    LET n == NextIdx(b)
    IN IF n.overflow /\ checks
       THEN [b |-> b, ids |-> <<>>, panic |-> TRUE]
       ELSE LET id == IdNew(n.idx, TypeOf(op))
            IN [b |-> MapInsert(b, id, op), ids |-> <<id>>, panic |-> FALSE]

\* place applied to each operation in order, stopping at a panic
RECURSIVE PlaceAll(_, _, _)
PlaceAll(b, ops, checks) ==
    IF ops = <<>> THEN [b |-> b, ids |-> <<>>, panic |-> FALSE]
    ELSE LET r == Place(b, Head(ops), checks)
         IN IF r.panic THEN r
            ELSE LET rest == PlaceAll(r.b, Tail(ops), checks)
                 IN [b |-> rest.b, ids |-> r.ids \o rest.ids,
                     panic |-> rest.panic]

\* IRInstructionSeq::push
Push(b, op, checks) ==
    LET r == Place(b, op, checks)
    IN [b |-> r.b, ids |-> r.ids, panic |-> r.panic,
        ret |-> IF r.panic THEN MkRet("Panic", <<>>, <<>>, <<>>)
                ELSE MkRet("Unit", <<>>, <<>>, <<>>)]

\* IRInstructionSeq::place_block returning the id of the last operation
PlaceBlockReturnsLast(b, ops, checks) ==
    IF Len(ops) = 0
    THEN [b |-> b, ids |-> <<>>, panic |-> FALSE,
          ret |-> MkRet("None", <<>>, <<>>, <<>>)]
    ELSE LET r == PlaceAll(b, ops, checks)
         IN [b |-> r.b, ids |-> r.ids, panic |-> r.panic,
             ret |-> IF r.panic THEN MkRet("Panic", <<>>, <<>>, <<>>)
                     ELSE MkRet("Some", <<r.ids[Len(r.ids)]>>, <<>>, <<>>)]

\* IRInstructionSeq::place_block
PlaceBlock(b, ops, checks) ==
    IF Len(ops) = 0
    THEN [b |-> b, ids |-> <<>>, panic |-> FALSE,
          ret |-> MkRet("None", <<>>, <<>>, <<>>)]
    ELSE LET r == PlaceAll(b, ops, checks)
         IN [b |-> r.b, ids |-> r.ids, panic |-> r.panic,
             ret |-> IF r.panic THEN MkRet("Panic", <<>>, <<>>, <<>>)
                     ELSE MkRet("Some", <<r.ids[1]>>, <<>>, <<>>)]

\* the operations coordinates_of2d places, Y before X
Coords2dOpsSwapped(point) ==
    <<OpCoordinateOf(point, "DotAccessY"), OpCoordinateOf(point, "DotAccessX")>>

\* the operations coordinates_of2d places, in evaluation order
Coords2dOps(point) ==
    <<OpCoordinateOf(point, "DotAccessX"), OpCoordinateOf(point, "DotAccessY")>>

\* the operations coordinates_of3d places, in evaluation order
Coords3dOps(point) ==
    <<OpCoordinateOf(point, "DotAccessX"), OpCoordinateOf(point, "DotAccessY"),
      OpCoordinateOf(point, "DotAccessZ")>>

\* IRInstructionSeq::coordinates_of2d
CoordinatesOf2d(b, point, checks) ==
    LET r == PlaceAll(b, Coords2dOps(point), checks)
    IN [b |-> r.b, ids |-> r.ids, panic |-> r.panic,
        ret |-> IF r.panic THEN MkRet("Panic", <<>>, <<>>, <<>>)
                ELSE MkRet("Ok", r.ids, <<>>, <<>>)]

\* IRInstructionSeq::coordinates_of3d
CoordinatesOf3d(b, point, checks) ==
    LET r == PlaceAll(b, Coords3dOps(point), checks)
    IN [b |-> r.b, ids |-> r.ids, panic |-> r.panic,
        ret |-> IF r.panic THEN MkRet("Panic", <<>>, <<>>, <<>>)
                ELSE MkRet("Ok", r.ids, <<>>, <<>>)]

\* IRInstructionSeq::get
Get(b, id) ==
    IF MapGet(b, id) # <<>> THEN MkRet("Ok", <<>>, MapGet(b, id), <<>>)
    ELSE MkRet(ErrCouldNotGet, <<>>, <<>>, <<>>)

\* IRInstructionSeq::latest reading the first entry
LatestReadsFirst(b) ==
    IF MapFirst(b) # <<>> THEN MkRet("Ok", <<>>, <<MapFirst(b)[1].op>>, <<>>)
    ELSE MkRet(ErrLatestEmpty, <<>>, <<>>, <<>>)

\* IRInstructionSeq::latest
Latest(b) ==
    IF MapLast(b) # <<>> THEN MkRet("Ok", <<>>, <<MapLast(b)[1].op>>, <<>>)
    ELSE MkRet(ErrLatestEmpty, <<>>, <<>>, <<>>)

(***************************************************************************)
(* Inputs of the calls                                                     *)
(***************************************************************************)
Id0 == IdNew(U32(0), "Number")
Id1 == IdNew(U32(1), "Number")
Id2 == IdNew(U32(2), "Number")

\* the operations the lowering pass places in Spec and SpecFull
OpPool == {OpConst(3), OpBinary(Id0, Id1, "Add"), OpRet(Id2), OpVec2(Id0, Id1)}

\* the slices handed to place_block
RECURSIVE SeqsUpTo(_, _)
SeqsUpTo(S, n) ==
    IF n = 0 THEN {<<>>}
    ELSE LET shorter == SeqsUpTo(S, n - 1)
         IN shorter \cup {Append(q, x) : q \in {r \in shorter : Len(r) = n - 1},
                                         x \in S}

Blocks == SeqsUpTo(OpPool, MaxBlock)

\* the vector ids handed to coordinates_of2d / coordinates_of3d
PointPool == {IdNew(U32(0), "Vec2"), IdNew(U32(2), "Vec3")}

\* the ids looked up with get: placed and unplaced positions, under the tag
\* place gives most of them and under another one
ProbeIds == {IdNew(idx, t) : idx \in {U32(i) : i \in 0..MaxPlaced} \cup {U32Max},
                             t \in {"Number", "Bool"}}

\* the length ids handed to list_of
LenPool == {IdNew(U32(1), "Number")}

\* every operation kind with every combination of operand type tags
TagIds == {IdNew(U32Zero, t) : t \in IRType}
TagSlots == {BroadcastArgNew(t, id) : t \in IRType, id \in {0, 255}}
AllOps ==
    {OpBinary(a, b, "Add") : a \in TagIds, b \in TagIds}
    \cup {OpUnary(a, "Neg") : a \in TagIds}
    \cup {OpConst(3), OpIConst(3)}
    \cup {OpLoadArg(a) : a \in TagIds}
    \cup {OpCoordinateOf(a, x) : a \in TagIds, x \in CoordinateAccess}
    \cup {OpVec2(a, b) : a \in TagIds, b \in TagIds}
    \cup {OpVec3(a, b, c) : a \in TagIds, b \in TagIds, c \in TagIds}
    \cup {OpNumberList(a) : a \in TagIds}
    \cup {OpVec2List(a) : a \in TagIds}
    \cup {OpVec3List(a) : a \in TagIds}
    \cup {OpListLength(a) : a \in TagIds}
    \cup {OpBeginBroadcast(a, b) : a \in TagIds, b \in TagIds}
    \cup {OpSetBroadcastArg(a, s) : a \in TagIds, s \in TagSlots}
    \cup {OpLoadBroadcastArg(s) : s \in TagSlots}
    \cup {OpEndBroadcast(a, b) : a \in TagIds, b \in TagIds}
    \cup {OpComparison(a, "Less", b) : a \in TagIds, b \in TagIds}
    \cup {OpBeginPiecewise(a, b) : a \in TagIds, b \in TagIds}
    \cup {OpInnerPiecewise(a, b) : a \in TagIds, b \in TagIds}
    \cup {OpEndPiecewise(a) : a \in TagIds}
    \cup {OpRet(a) : a \in TagIds}

(***************************************************************************)
(* State.                                                                  *)
(*   backing          IRInstructionSeq.backing                             *)
(*   last             the latest call: its name, its arguments (ops, ids,  *)
(*                    ty) and what it returned (ret)                       *)
(*   placements       history: the [id, op] of every placement, in order   *)
(*   panicked         the thread has panicked (arithmetic overflow)        *)
(***************************************************************************)
\* the overflow-checks setting of the build: on in a debug profile, off in a
\* release profile
OverflowChecks == BOOLEAN

MkCall(fn, ops, ids, ty, ret) ==
    [fn |-> fn, ops |-> ops, ids |-> ids, ty |-> ty, ret |-> ret]

NoRet == MkRet("-", <<>>, <<>>, <<>>)

\* the [id, op] pairs of a run of placements
Placed(ids, ops) == [i \in 1..Len(ids) |-> [id |-> ids[i], op |-> ops[i]]]

\* an empty sequence, as created for one compiled unit
Init ==
    /\ backing = EmptyBacking
    /\ last = MkCall("new", <<>>, <<>>, <<>>, NoRet)
    /\ placements = <<>>
    /\ panicked = FALSE

\* a sequence that holds BulkOp at every position up to at most MaxNear
\* below u32::MAX
InitFull ==
    /\ \E j \in 0..MaxNear :
          backing = [bulk |-> <<<<LimbMod - 1, LimbMod - 1 - j>>>>, ents |-> <<>>]
    /\ last = MkCall("new", <<>>, <<>>, <<>>, NoRet)
    /\ placements = <<>>
    /\ panicked = FALSE

\* an empty sequence and an operation value the caller has built
InitTypes ==
    /\ backing = EmptyBacking
    /\ \E op \in AllOps : last = MkCall("new", <<op>>, <<>>, <<>>, NoRet)
    /\ placements = <<>>
    /\ panicked = FALSE

\* the effect of a call that went through place
Mutate(fn, ops, ids, r, ret) ==
    /\ backing' = r.b
    /\ placements' = placements \o Placed(r.ids, ops)
    /\ panicked' = r.panic
    /\ last' = MkCall(fn, ops, ids, <<>>, ret)

\* the effect of a call that takes &self or no sequence at all
Query(fn, ops, ids, ty, ret) ==
    /\ last' = MkCall(fn, ops, ids, ty, ret)
    /\ UNCHANGED <<backing, placements, panicked>>

PlaceCall(op) ==
    /\ ~panicked
    /\ \E checks \in OverflowChecks :
       LET r == Place(backing, op, checks)
       IN Mutate("place", <<op>>, <<>>, r,
                 IF r.panic THEN MkRet("Panic", <<>>, <<>>, <<>>)
                 ELSE MkRet("Ok", r.ids, <<>>, <<>>))

PushCall(op) ==
    /\ ~panicked
    /\ \E checks \in OverflowChecks :
       LET r == Push(backing, op, checks)
       IN Mutate("push", <<op>>, <<>>, r, r.ret)

PlaceBlockCall(ops) ==
    /\ ~panicked
    /\ \E checks \in OverflowChecks :
       LET r == PlaceBlock(backing, ops, checks)
       IN Mutate("place_block", ops, <<>>, r, r.ret)

CoordinatesOf2dCall(point) ==
    /\ ~panicked
    /\ \E checks \in OverflowChecks :
       LET r == CoordinatesOf2d(backing, point, checks)
       IN Mutate("coordinates_of2d", Coords2dOps(point), <<point>>, r, r.ret)

CoordinatesOf3dCall(point) ==
    /\ ~panicked
    /\ \E checks \in OverflowChecks :
       LET r == CoordinatesOf3d(backing, point, checks)
       IN Mutate("coordinates_of3d", Coords3dOps(point), <<point>>, r, r.ret)

GetCall(id) ==
    /\ ~panicked
    /\ Query("get", <<>>, <<id>>, <<>>, Get(backing, id))

LatestCall ==
    /\ ~panicked
    /\ Query("latest", <<>>, <<>>, <<>>, Latest(backing))

ListOfCall(t, len) ==
    /\ ~panicked
    /\ Query("list_of", <<>>, <<len>>, <<t>>, ListOf(t, len))

DowncastListCall(t) ==
    /\ ~panicked
    /\ Query("downcast_list", <<>>, <<>>, <<t>>, DowncastList(t))

\* type_of applied to the operation the caller holds
TypeOfHeld ==
    /\ ~panicked
    /\ Len(last.ops) = 1
    /\ Query("type_of", last.ops, <<>>, <<>>,
             MkRet("Ok", <<>>, <<>>, <<TypeOf(last.ops[1])>>))

\* place applied to the operation the caller holds
PlaceHeld ==
    /\ Len(last.ops) = 1
    /\ Len(placements) < MaxTypedPlaced
    /\ PlaceCall(last.ops[1])

Next ==
    \/ \E op \in OpPool : Len(placements) < MaxPlaced /\ PlaceCall(op)
    \/ \E op \in OpPool : Len(placements) < MaxPlaced /\ PushCall(op)
    \/ \E ops \in Blocks :
          Len(placements) + Len(ops) <= MaxPlaced /\ PlaceBlockCall(ops)
    \/ \E p \in PointPool :
          Len(placements) + 2 <= MaxPlaced /\ CoordinatesOf2dCall(p)
    \/ \E p \in PointPool :
          Len(placements) + 3 <= MaxPlaced /\ CoordinatesOf3dCall(p)
    \/ \E id \in ProbeIds : GetCall(id)
    \/ LatestCall
    \/ \E t \in IRType, len \in LenPool : ListOfCall(t, len)
    \/ \E t \in IRType : DowncastListCall(t)

NextTypes ==
    \/ TypeOfHeld
    \/ PlaceHeld

Spec == Init /\ [][Next]_vars

SpecFull == InitFull /\ [][Next]_vars

SpecTypes == InitTypes /\ [][NextTypes]_vars

(***************************************************************************)
(* Properties                                                              *)
(***************************************************************************)

\* C1: starting from an empty sequence, the k-th placement (k = 0, 1, ...)
\* is assigned position k: the positions handed out are 0, 1, 2, ... without
\* gaps, the placed positions after n placements are exactly 0..n-1, every
\* position is greater than all earlier ones, and place returns the id it
\* has just assigned.
C1_SequentialPositions ==
    LET n == Len(placements)
    IN /\ backing.bulk = <<>>
       /\ Len(backing.ents) = n
       /\ {backing.ents[k].key.idx : k \in 1..n} = {U32(k) : k \in 0..(n - 1)}
       /\ \A k \in 1..n :
             /\ placements[k].id.idx = U32(k - 1)
             /\ backing.ents[k].key.idx = U32(k - 1)
             /\ \A j \in 1..(k - 1) :
                   U32Cmp(placements[j].id.idx, placements[k].id.idx) = "Less"
       /\ last.fn = "place" =>
             /\ n > 0
             /\ last.ret = MkRet("Ok", <<placements[n].id>>, <<>>, <<>>)

C1_Witness ==
    /\ last.fn = "place"
    /\ Len(placements) >= 3
    /\ last.ret.ids[1].idx = U32(Len(placements) - 1)

\* the result type the operation table gives for an operation
C2_TableType(op) ==
    CASE op.kind \in {"Binary", "Unary", "Const", "IConst", "CoordinateOf",
                      "ListLength"} -> "Number"
      [] op.kind = "Vec2" -> "Vec2"
      [] op.kind = "Vec3" -> "Vec3"
      [] op.kind = "NumberList" -> "NumberList"
      [] op.kind = "Vec2List" -> "Vec2List"
      [] op.kind = "Vec3List" -> "Vec3List"
      [] op.kind = "Comparison" -> "Bool"
      [] op.kind = "LoadArg" -> op.ids[1].t
      [] op.kind = "LoadBroadcastArg" -> op.bargs[1].t
      [] op.kind = "BeginBroadcast" -> op.ids[2].t
      [] op.kind = "BeginPiecewise" -> op.ids[2].t
      [] op.kind = "Ret" -> op.ids[1].t
      [] op.kind \in {"SetBroadcastArg", "EndBroadcast", "InnerPiecewise",
                      "EndPiecewise"} -> "Never"

\* C2: type_of returns, for every operation kind and every combination of
\* operand type tags, the result type of the operation table, and the id
\* place returns for an operation carries that type.
C2_TypeOfMatchesTable ==
    /\ last.fn = "type_of" =>
          /\ last.ret.tag = "Ok"
          /\ last.ret.ty = <<C2_TableType(last.ops[1])>>
          /\ last.ret.ty[1] \in IRType
    /\ (last.fn = "place" /\ last.ret.tag = "Ok") =>
          last.ret.ids[1].t = C2_TableType(last.ops[1])

C2_Witness ==
    /\ last.fn = "type_of"
    /\ last.ops[1].kind = "BeginBroadcast"
    /\ last.ops[1].ids[1].t = "Number"
    /\ last.ret.ty = <<"Vec2List">>
    /\ Len(placements) = 1
    /\ placements[1].op = last.ops[1]
    /\ placements[1].id.t = "Vec2List"

\* C3: get looks an id up by its position alone: whatever tag the id
\* carries, get returns the operation placed at the id's position when that
\* position has been placed, and the not-found error otherwise (so always on
\* an empty sequence); a stored key equals the id exactly when the positions
\* agree.
C3_LookupByPosition ==
    last.fn = "get" =>
       LET id == last.ids[1]
           hits == {k \in 1..Len(placements) : placements[k].id.idx = id.idx}
       IN /\ IF hits = {}
             THEN last.ret = MkRet(ErrCouldNotGet, <<>>, <<>>, <<>>)
             ELSE \A k \in hits :
                     last.ret = MkRet("Ok", <<>>, <<placements[k].op>>, <<>>)
          /\ \A k \in 1..Len(placements) :
                /\ IdEq(placements[k].id, id) <=> (k \in hits)
                /\ (IdCmp(placements[k].id, id) = "Equal") <=> (k \in hits)

C3_Witness ==
    /\ last.fn = "get"
    /\ last.ret.tag = "Ok"
    /\ Len(placements) >= 2
    /\ last.ids[1].idx = U32(1)
    /\ last.ids[1].t = "Bool"
    /\ placements[2].id.t # "Bool"
    /\ last.ret.ops = <<placements[2].op>>

\* C4: latest returns the operation of the most recent placement, fails with
\* the empty-sequence error when nothing has been placed, and leaves the
\* sequence as it is.
C4_LatestIsMostRecent ==
    [][last'.fn = "latest" =>
          /\ backing' = backing
          /\ placements' = placements
          /\ IF placements = <<>>
             THEN last'.ret = MkRet(ErrLatestEmpty, <<>>, <<>>, <<>>)
             ELSE last'.ret = MkRet("Ok", <<>>,
                                    <<placements[Len(placements)].op>>, <<>>)]_vars

C4_Witness ==
    /\ last.fn = "latest"
    /\ Len(placements) = 4
    /\ placements[1].op = OpConst(3)
    /\ placements[2].op = OpConst(3)
    /\ placements[3].op = OpBinary(placements[1].id, placements[2].id, "Add")
    /\ placements[3].id.t = "Number"
    /\ placements[4].op = OpRet(placements[3].id)
    /\ last.ret = MkRet("Ok", <<>>, <<OpRet(placements[3].id)>>, <<>>)

\* the ids whose lookups C5 follows
C5_Watched == ProbeIds \cup {backing.ents[k].key : k \in 1..Len(backing.ents)}

\* C5: once an operation has been placed at a position, no later call removes
\* or replaces it: a lookup of that position keeps returning the same
\* operation, also when the next position would pass u32::MAX.
C5_PlacedIsPermanent ==
    [][\A id \in C5_Watched :
          MapGet(backing, id) # <<>> => MapGet(backing', id) = MapGet(backing, id)]_vars

\* C7: place_block on a sequence holding n operations returns no id and
\* changes nothing for an empty slice; for a slice of m >= 1 operations it
\* places them in order at positions n..n+m-1, keeps what was there, and
\* returns the id of the first one: position n, typed type_of(ops[0]).
C7_PlaceBlockReturnsFirst ==
    [][last'.fn = "place_block" =>
          LET ops == last'.ops
              m == Len(ops)
              n == Len(backing.ents)
          IN IF m = 0
             THEN /\ last'.ret = MkRet("None", <<>>, <<>>, <<>>)
                  /\ backing' = backing
             ELSE /\ backing.bulk = <<>> /\ backing'.bulk = <<>>
                  /\ Len(backing'.ents) = n + m
                  /\ SubSeq(backing'.ents, 1, n) = backing.ents
                  /\ \A i \in 1..m :
                        backing'.ents[n + i] =
                           [key |-> IdNew(U32(n + i - 1), TypeOf(ops[i])),
                            op |-> ops[i]]
                  /\ last'.ret =
                        MkRet("Some", <<IdNew(U32(n), TypeOf(ops[1]))>>, <<>>, <<>>)]_vars

C7_Witness ==
    /\ last.fn = "place_block"
    /\ Len(last.ops) = 2
    /\ last.ops[1].kind = "Vec2"
    /\ last.ops[2].kind = "Ret"
    /\ Len(placements) = 3
    /\ last.ret = MkRet("Some", <<IdNew(U32(1), "Vec2")>>, <<>>, <<>>)
    /\ placements[3].id = IdNew(U32(2), "Number")

\* C8: coordinates_of2d(p) on a sequence holding n operations places
\* CoordinateOf(p, X) at n and CoordinateOf(p, Y) at n+1 and returns their
\* Number-typed ids in that order; coordinates_of3d(p) places X, Y, Z at
\* n, n+1, n+2 and returns the three ids in that order; what was placed
\* before stays as it was.
C8_CoordinatesInAxisOrder ==
    [][last'.fn \in {"coordinates_of2d", "coordinates_of3d"} =>
          LET p == last'.ids[1]
              n == Len(backing.ents)
              axes == IF last'.fn = "coordinates_of2d"
                      THEN <<"DotAccessX", "DotAccessY">>
                      ELSE <<"DotAccessX", "DotAccessY", "DotAccessZ">>
              m == Len(axes)
          IN /\ backing.bulk = <<>> /\ backing'.bulk = <<>>
             /\ Len(backing'.ents) = n + m
             /\ SubSeq(backing'.ents, 1, n) = backing.ents
             /\ \A i \in 1..m :
                   backing'.ents[n + i] =
                      [key |-> IdNew(U32(n + i - 1), "Number"),
                       op |-> OpCoordinateOf(p, axes[i])]
             /\ last'.ret =
                   MkRet("Ok", [i \in 1..m |-> IdNew(U32(n + i - 1), "Number")],
                         <<>>, <<>>)]_vars

C8_Witness ==
    /\ last.fn = "coordinates_of2d"
    /\ Len(placements) = 3
    /\ placements[1].op.kind = "Vec2"
    /\ last.ids = <<placements[1].id>>
    /\ last.ret.ids = <<placements[2].id, placements[3].id>>
    /\ MapGet(backing, last.ret.ids[1]) = <<OpCoordinateOf(placements[1].id, "DotAccessX")>>
    /\ MapGet(backing, last.ret.ids[2]) = <<OpCoordinateOf(placements[1].id, "DotAccessY")>>

\* C9: list_of(len) on Number, Vec2, Vec3 returns NumberList(len),
\* Vec2List(len), Vec3List(len), whose type_of is the matching list type; on
\* every other type it fails with the cannot-create-a-list error; it never
\* touches an instruction sequence.
C9_ListOf ==
    [][last'.fn = "list_of" =>
          LET t == last'.ty[1]
              len == last'.ids[1]
          IN /\ backing' = backing
             /\ placements' = placements
             /\ t = "Number" =>
                   /\ last'.ret = MkRet("Ok", <<>>, <<OpNumberList(len)>>, <<>>)
                   /\ TypeOf(last'.ret.ops[1]) = "NumberList"
             /\ t = "Vec2" =>
                   /\ last'.ret = MkRet("Ok", <<>>, <<OpVec2List(len)>>, <<>>)
                   /\ TypeOf(last'.ret.ops[1]) = "Vec2List"
             /\ t = "Vec3" =>
                   /\ last'.ret = MkRet("Ok", <<>>, <<OpVec3List(len)>>, <<>>)
                   /\ TypeOf(last'.ret.ops[1]) = "Vec3List"
             /\ t \in {"Bool", "Never", "NumberList", "Vec2List", "Vec3List"} =>
                   /\ last'.ret.tag = ErrCannotCreateList
                   /\ last'.ret.ops = <<>>]_vars

C9_Witness ==
    /\ last.fn = "list_of"
    /\ last.ty = <<"Bool">>
    /\ last.ret.tag = ErrCannotCreateList
    /\ placements # <<>>

\* C10 as stated: downcast_list returns an element type for every list type
\* (NumberList, Vec2List, Vec3List) and every vector type (Vec2, Vec3), and
\* none exactly for Number, Bool and Never; NumberList maps to Number, Vec2
\* and Vec3 to themselves.
C10_DefinedOnAllLists ==
    last.fn = "downcast_list" =>
       LET t == last.ty[1]
       IN /\ t \in {"NumberList", "Vec2List", "Vec3List", "Vec2", "Vec3"} =>
                last.ret.tag = "Some"
          /\ (last.ret.tag = "None") <=> (t \in {"Number", "Bool", "Never"})
          /\ t = "NumberList" => last.ret.ty = <<"Number">>
          /\ t \in {"Vec2", "Vec3"} => last.ret.ty = <<t>>

\* C10, amended: downcast_list returns an element type exactly for
\* NumberList (Number), Vec2 (Vec2) and Vec3 (Vec3), and none for Number,
\* Bool, Never, Vec2List and Vec3List.
C10_DefinedOnNumberListAndVectors ==
    last.fn = "downcast_list" =>
       LET t == last.ty[1]
       IN /\ t = "NumberList" => last.ret = MkRet("Some", <<>>, <<>>, <<"Number">>)
          /\ t \in {"Vec2", "Vec3"} => last.ret = MkRet("Some", <<>>, <<>>, <<t>>)
          /\ t \in {"Number", "Bool", "Never", "Vec2List", "Vec3List"} =>
                last.ret = MkRet("None", <<>>, <<>>, <<>>)

C10_Witness ==
    /\ last.fn = "downcast_list"
    /\ last.ty = <<"Vec2List">>
    /\ last.ret.tag = "None"

====
